---------------------------- MODULE Spec2Model ----------------------------
(***************************************************************************)
(* Exact Riemann solver for the LWR traffic model with a variable speed    *)
(* limit (exact_solvers/traffic_variable_speed.py).                        *)
(*                                                                         *)
(* Floating point numbers are modelled as exact real numbers.  Every       *)
(* branch of the solver takes at most one square root, so every number of  *)
(* one solution lies in Q(sqrt(r)) for one integer r: a number is a record *)
(* [a, b, d, r] standing for (a + b*sqrt(r)) / d, with d > 0, r not a      *)
(* perfect square when b # 0, and gcd(a, b, d) = 1.  d = 0 is NaN.         *)
(***************************************************************************)
EXTENDS Integers, Sequences, FiniteSets

\* Densities are multiples of 1/(2*HalfSteps), so that 1/2 is on the grid.
HalfSteps == 2
\* Speed limits are the integers 1..MaxV.
MaxV == 4

-----------------------------------------------------------------------------
(* Exact arithmetic *)

Abs(n) == IF n < 0 THEN -n ELSE n

SgnInt(n) == IF n > 0 THEN 1 ELSE IF n < 0 THEN -1 ELSE 0

RECURSIVE GCD(_, _)
GCD(m, n) == IF n = 0 THEN m ELSE GCD(n, m % n)

ISqrt(n) == CHOOSE s \in 0..n : s * s <= n /\ (s + 1) * (s + 1) > n

NaN == [a |-> 0, b |-> 0, d |-> 0, r |-> 0]

IsNaN(x) == x.d = 0

Norm(x) ==
    IF x.d = 0 THEN NaN
    ELSE LET g == GCD(GCD(Abs(x.a), Abs(x.b)), Abs(x.d))
             s == IF x.d < 0 THEN -g ELSE g
         IN  [a |-> x.a \div s, b |-> x.b \div s, d |-> x.d \div s,
              r |-> IF x.b = 0 THEN 0 ELSE x.r]

Rat(n, d) == Norm([a |-> n, b |-> 0, d |-> d, r |-> 0])

Zero == Rat(0, 1)
One == Rat(1, 1)
Two == Rat(2, 1)
Four == Rat(4, 1)
Half == Rat(1, 2)

Rad(x, y) == IF x.r # 0 THEN x.r ELSE y.r

Neg(x) == [x EXCEPT !.a = -x.a, !.b = -x.b]

Add(x, y) ==
    Norm([a |-> x.a * y.d + y.a * x.d, b |-> x.b * y.d + y.b * x.d,
          d |-> x.d * y.d, r |-> Rad(x, y)])

Sub(x, y) == Add(x, Neg(y))

Mul(x, y) ==
    Norm([a |-> x.a * y.a + x.b * y.b * Rad(x, y),
          b |-> x.a * y.b + x.b * y.a,
          d |-> x.d * y.d, r |-> Rad(x, y)])

\* 1/y = d * (a - b*sqrt(r)) / (a^2 - b^2 r).  A division by zero (inf or
\* nan in numpy) is folded into NaN; no valid input divides by zero.
Inv(y) ==
    Norm([a |-> y.d * y.a, b |-> -(y.d * y.b),
          d |-> y.a * y.a - y.b * y.b * y.r, r |-> y.r])

Div(x, y) == IF IsNaN(y) THEN NaN ELSE Mul(x, Inv(y))

\* sign of a + b*sqrt(r)
Sgn(x) ==
    IF x.b = 0 THEN SgnInt(x.a)
    ELSE IF x.a >= 0 /\ x.b > 0 THEN 1
    ELSE IF x.a <= 0 /\ x.b < 0 THEN -1
    ELSE LET D == x.a * x.a - x.b * x.b * x.r
         IN  IF x.a > 0 THEN SgnInt(D) ELSE -SgnInt(D)

\* comparisons; every comparison with NaN is false
Cmp(x, y) == Sgn(Sub(x, y))
Ok(x, y) == ~IsNaN(x) /\ ~IsNaN(y)
Lt(x, y) == Ok(x, y) /\ Cmp(x, y) < 0
Le(x, y) == Ok(x, y) /\ Cmp(x, y) <= 0
Gt(x, y) == Ok(x, y) /\ Cmp(x, y) > 0
Ge(x, y) == Ok(x, y) /\ Cmp(x, y) >= 0
Eq(x, y) == Ok(x, y) /\ Cmp(x, y) = 0

\* np.sqrt of a rational: NaN below zero, a rational when the radicand is
\* the square of a rational, and the generator of Q(sqrt(r)) otherwise
Sqrt(x) ==
    IF IsNaN(x) \/ x.a < 0 THEN NaN
    ELSE LET R == x.a * x.d
             s == ISqrt(R)
         IN  IF s * s = R THEN Rat(s, x.d)
             ELSE [a |-> 0, b |-> 1, d |-> x.d, r |-> R]

-----------------------------------------------------------------------------
(* exact_riemann_solution *)

f(q, v) == Mul(Mul(v, q), Sub(One, q))

c(q, v) == Mul(v, Sub(One, Mul(Two, q)))

Scalar(x) == [kind |-> "scalar", lo |-> x, hi |-> x]

Interval(lo, hi) == [kind |-> "interval", lo |-> lo, hi |-> hi]

\* what one branch leaves behind: the returned states, speeds and
\* wave_types, and the locals its reval closes over
Solution(branch, states, speeds, wave_types, radicand, q_star, shock_speed, c_star) ==
    [branch |-> branch, states |-> states, speeds |-> speeds,
     wave_types |-> wave_types, radicand |-> radicand, q_star |-> q_star,
     shock_speed |-> shock_speed, c_star |-> c_star]

\* the guards of the if/elif chain, in the order of the source
\* variant: the degenerate case taken on equal densities, not equal fluxes
IsDegenerate_ByDensity(q_l, q_r, v_l, v_r) == Eq(q_r, q_l)

IsDegenerate(q_l, q_r, v_l, v_r) == Eq(f(q_r, v_r), f(q_l, v_l))

IsLeftShock(q_l, q_r, v_l, v_r) ==
    Lt(f(q_r, v_r), f(q_l, v_l)) /\ Gt(q_r, Half)

IsRightShock(q_l, q_r, v_l, v_r) ==
    Gt(f(q_r, v_r), f(q_l, v_l)) /\ Lt(q_l, Half)

\* variant: q_r < 0.5 for q_r <= 0.5
IsShockRaref_Strict(q_l, q_r, v_l, v_r) ==
    Gt(f(q_l, v_l), Div(v_r, Four)) /\ Lt(q_r, Half)

IsShockRaref(q_l, q_r, v_l, v_r) ==
    Gt(f(q_l, v_l), Div(v_r, Four)) /\ Le(q_r, Half)

\* variant: q_l > 0.5 for q_l >= 0.5
IsRarefShock_Strict(q_l, q_r, v_l, v_r) ==
    Gt(f(q_r, v_r), Div(v_l, Four)) /\ Gt(q_l, Half)

IsRarefShock(q_l, q_r, v_l, v_r) ==
    Gt(f(q_r, v_r), Div(v_l, Four)) /\ Ge(q_l, Half)

IsLeftRaref(q_l, q_r, v_l, v_r) ==
    /\ Lt(f(q_l, v_l), f(q_r, v_r))
    /\ Le(f(q_r, v_r), Div(v_l, Four))
    /\ Gt(q_l, Half)
    /\ Ge(q_r, Half)

IsRightRaref(q_l, q_r, v_l, v_r) ==
    /\ Lt(f(q_r, v_r), f(q_l, v_l))
    /\ Le(f(q_l, v_l), Div(v_r, Four))
    /\ Le(q_l, Half)
    /\ Lt(q_r, Half)

IsTransonic(q_l, q_r, v_l, v_r) ==
    /\ Ge(q_l, Half)
    /\ Le(q_r, Half)
    /\ Le(f(q_l, v_l), Div(v_r, Four))
    /\ Le(f(q_r, v_r), Div(v_l, Four))

\* the bodies of the branches
Degenerate(q_l, q_r, v_l, v_r) ==
    Solution("degenerate", <<q_l, q_r>>, <<Scalar(Zero)>>, <<"contact">>,
             Zero, Zero, Zero, Zero)

\* variant: the radicand of the right shock branch, 1 - 4*f_l/v_r
LeftShock_RightRadicand(q_l, q_r, v_l, v_r) ==
    LET f_l == f(q_l, v_l)
        f_r == f(q_r, v_r)
        rad == Sub(One, Div(Mul(Four, f_l), v_r))
        q_star == Div(Add(One, Sqrt(rad)), Two)
        shock_speed == Div(Sub(f_r, f_l), Sub(q_star, q_l))
    IN  Solution("left_shock", <<q_l, q_star, q_r>>,
                 <<Scalar(shock_speed), Scalar(Zero)>>,
                 <<"shock", "contact">>, rad, q_star, shock_speed, Zero)

LeftShock(q_l, q_r, v_l, v_r) ==
    LET f_l == f(q_l, v_l)
        f_r == f(q_r, v_r)
        rad == Sub(One, Div(Mul(Four, f_r), v_l))
        q_star == Div(Add(One, Sqrt(rad)), Two)
        shock_speed == Div(Sub(f_r, f_l), Sub(q_star, q_l))
    IN  Solution("left_shock", <<q_l, q_star, q_r>>,
                 <<Scalar(shock_speed), Scalar(Zero)>>,
                 <<"shock", "contact">>, rad, q_star, shock_speed, Zero)

RightShock(q_l, q_r, v_l, v_r) ==
    LET f_l == f(q_l, v_l)
        f_r == f(q_r, v_r)
        rad == Sub(One, Div(Mul(Four, f_l), v_r))
        q_star == Div(Sub(One, Sqrt(rad)), Two)
        shock_speed == Div(Sub(f_r, f_l), Sub(q_r, q_star))
    IN  Solution("right_shock", <<q_l, q_star, q_r>>,
                 <<Scalar(Zero), Scalar(shock_speed)>>,
                 <<"contact", "shock">>, rad, q_star, shock_speed, Zero)

\* variant: the shock speed without its minus sign
ShockRaref_NoMinus(q_l, q_r, v_l, v_r) ==
    LET f_l == f(q_l, v_l)
        c_r == c(q_r, v_r)
        rad == Sub(One, Div(v_r, v_l))
        q_star == Div(Add(One, Sqrt(rad)), Two)
        shock_speed == Div(Sub(f_l, Div(v_r, Four)), Sub(q_star, q_l))
    IN  Solution("shock_raref", <<q_l, q_star, Half, q_r>>,
                 <<Scalar(shock_speed), Scalar(Zero), Interval(Zero, c_r)>>,
                 <<"shock", "contact", "raref">>, rad, q_star, shock_speed, Zero)

ShockRaref(q_l, q_r, v_l, v_r) ==
    LET f_l == f(q_l, v_l)
        c_r == c(q_r, v_r)
        rad == Sub(One, Div(v_r, v_l))
        q_star == Div(Add(One, Sqrt(rad)), Two)
        shock_speed == Div(Neg(Sub(f_l, Div(v_r, Four))), Sub(q_star, q_l))
    IN  Solution("shock_raref", <<q_l, q_star, Half, q_r>>,
                 <<Scalar(shock_speed), Scalar(Zero), Interval(Zero, c_r)>>,
                 <<"shock", "contact", "raref">>, rad, q_star, shock_speed, Zero)

\* variant: the last two states exchanged
RarefShock_StarLast(q_l, q_r, v_l, v_r) ==
    LET f_r == f(q_r, v_r)
        c_l == c(q_l, v_l)
        rad == Sub(One, Div(v_l, v_r))
        q_star == Div(Sub(One, Sqrt(rad)), Two)
        shock_speed == Div(Sub(f_r, Div(v_l, Four)), Sub(q_r, q_star))
    IN  Solution("raref_shock", <<q_l, Half, q_r, q_star>>,
                 <<Interval(c_l, Zero), Scalar(Zero), Scalar(shock_speed)>>,
                 <<"raref", "contact", "shock">>, rad, q_star, shock_speed, Zero)

RarefShock(q_l, q_r, v_l, v_r) ==
    LET f_r == f(q_r, v_r)
        c_l == c(q_l, v_l)
        rad == Sub(One, Div(v_l, v_r))
        q_star == Div(Sub(One, Sqrt(rad)), Two)
        shock_speed == Div(Sub(f_r, Div(v_l, Four)), Sub(q_r, q_star))
    IN  Solution("raref_shock", <<q_l, Half, q_star, q_r>>,
                 <<Interval(c_l, Zero), Scalar(Zero), Scalar(shock_speed)>>,
                 <<"raref", "contact", "shock">>, rad, q_star, shock_speed, Zero)

\* variant: the speeds in the order of the right rarefaction branch
LeftRaref_ContactFirst(q_l, q_r, v_l, v_r) ==
    LET f_r == f(q_r, v_r)
        c_l == c(q_l, v_l)
        rad == Sub(One, Div(Mul(Four, f_r), v_l))
        q_star == Div(Add(One, Sqrt(rad)), Two)
        c_star == c(q_star, v_l)
    IN  Solution("left_raref", <<q_l, q_star, q_r>>,
                 <<Scalar(Zero), Interval(c_l, c_star)>>,
                 <<"raref", "contact">>, rad, q_star, Zero, c_star)

LeftRaref(q_l, q_r, v_l, v_r) ==
    LET f_r == f(q_r, v_r)
        c_l == c(q_l, v_l)
        rad == Sub(One, Div(Mul(Four, f_r), v_l))
        q_star == Div(Add(One, Sqrt(rad)), Two)
        c_star == c(q_star, v_l)
    IN  Solution("left_raref", <<q_l, q_star, q_r>>,
                 <<Interval(c_l, c_star), Scalar(Zero)>>,
                 <<"raref", "contact">>, rad, q_star, Zero, c_star)

RightRaref(q_l, q_r, v_l, v_r) ==
    LET f_l == f(q_l, v_l)
        c_r == c(q_r, v_r)
        rad == Sub(One, Div(Mul(Four, f_l), v_r))
        q_star == Div(Sub(One, Sqrt(rad)), Two)
        c_star == c(q_star, v_r)
    IN  Solution("right_raref", <<q_l, q_star, q_r>>,
                 <<Scalar(Zero), Interval(c_star, c_r)>>,
                 <<"contact", "raref">>, rad, q_star, Zero, c_star)

TransonicLeft(q_l, q_r, v_l, v_r) ==
    LET c_l == c(q_l, v_l)
        c_r == c(q_r, v_r)
        rad == Sub(One, Div(v_r, v_l))
        q_star == Div(Add(One, Sqrt(rad)), Two)
        c_star == c(q_star, v_l)
    IN  Solution("transonic_left", <<q_l, q_star, Half, q_r>>,
                 <<Interval(c_l, c_star), Scalar(Zero), Interval(Zero, c_r)>>,
                 <<"raref", "contact", "raref">>, rad, q_star, Zero, c_star)

TransonicRight(q_l, q_r, v_l, v_r) ==
    LET c_l == c(q_l, v_l)
        c_r == c(q_r, v_r)
        rad == Sub(One, Div(v_l, v_r))
        q_star == Div(Sub(One, Sqrt(rad)), Two)
        c_star == c(q_star, v_r)
    IN  Solution("transonic_right", <<q_l, Half, q_star, q_r>>,
                 <<Interval(c_l, Zero), Scalar(Zero), Interval(c_star, c_r)>>,
                 <<"raref", "contact", "raref">>, rad, q_star, Zero, c_star)

TransonicEqual(q_l, q_r, v_l, v_r) ==
    Solution("transonic_equal", <<q_l, q_r>>,
             <<Interval(c(q_l, v_l), c(q_r, v_r))>>, <<"raref">>,
             Zero, Zero, Zero, Zero)

Transonic(q_l, q_r, v_l, v_r) ==
    IF Lt(v_r, v_l) THEN TransonicLeft(q_l, q_r, v_l, v_r)
    ELSE IF Gt(v_r, v_l) THEN TransonicRight(q_l, q_r, v_l, v_r)
    ELSE TransonicEqual(q_l, q_r, v_l, v_r)

\* raise Exception('Unhandled state!'): nothing is returned
Unhandled == Solution("unhandled", <<>>, <<>>, <<>>, Zero, Zero, Zero, Zero)

\* variant: the transonic test ahead of the two rarefaction-only tests
exact_riemann_solution_TransonicFirst(q_l, q_r, v_l, v_r) ==
    IF IsDegenerate(q_l, q_r, v_l, v_r) THEN Degenerate(q_l, q_r, v_l, v_r)
    ELSE IF IsLeftShock(q_l, q_r, v_l, v_r) THEN LeftShock(q_l, q_r, v_l, v_r)
    ELSE IF IsRightShock(q_l, q_r, v_l, v_r) THEN RightShock(q_l, q_r, v_l, v_r)
    ELSE IF IsShockRaref(q_l, q_r, v_l, v_r) THEN ShockRaref(q_l, q_r, v_l, v_r)
    ELSE IF IsRarefShock(q_l, q_r, v_l, v_r) THEN RarefShock(q_l, q_r, v_l, v_r)
    ELSE IF IsTransonic(q_l, q_r, v_l, v_r) THEN Transonic(q_l, q_r, v_l, v_r)
    ELSE IF IsLeftRaref(q_l, q_r, v_l, v_r) THEN LeftRaref(q_l, q_r, v_l, v_r)
    ELSE IF IsRightRaref(q_l, q_r, v_l, v_r) THEN RightRaref(q_l, q_r, v_l, v_r)
    ELSE Unhandled


exact_riemann_solution(q_l, q_r, v_l, v_r) ==
    IF IsDegenerate(q_l, q_r, v_l, v_r) THEN Degenerate(q_l, q_r, v_l, v_r)
    ELSE IF IsLeftShock(q_l, q_r, v_l, v_r) THEN LeftShock(q_l, q_r, v_l, v_r)
    ELSE IF IsRightShock(q_l, q_r, v_l, v_r) THEN RightShock(q_l, q_r, v_l, v_r)
    ELSE IF IsShockRaref(q_l, q_r, v_l, v_r) THEN ShockRaref(q_l, q_r, v_l, v_r)
    ELSE IF IsRarefShock(q_l, q_r, v_l, v_r) THEN RarefShock(q_l, q_r, v_l, v_r)
    ELSE IF IsLeftRaref(q_l, q_r, v_l, v_r) THEN LeftRaref(q_l, q_r, v_l, v_r)
    ELSE IF IsRightRaref(q_l, q_r, v_l, v_r) THEN RightRaref(q_l, q_r, v_l, v_r)
    ELSE IF IsTransonic(q_l, q_r, v_l, v_r) THEN Transonic(q_l, q_r, v_l, v_r)
    ELSE Unhandled

-----------------------------------------------------------------------------
(* reval: the terms summed by the evaluator of each branch *)

Term(ind, val) == [ind |-> ind, val |-> val]

\* (1. - xi/v)/2.
Fan(xi, v) == Div(Sub(One, Div(xi, v)), Two)

RevalTerms(sol, xi, q_l, q_r, v_l, v_r) ==
    LET q_star == sol.q_star
        shock_speed == sol.shock_speed
        c_star == sol.c_star
        c_l == c(q_l, v_l)
        c_r == c(q_r, v_r)
        b == sol.branch
    IN  IF b = "degenerate" THEN
            <<Term(TRUE, q_l)>>
        ELSE IF b = "left_shock" THEN
            <<Term(Le(xi, shock_speed), q_l),
              Term(Lt(shock_speed, xi) /\ Le(xi, Zero), q_star),
              Term(Ge(xi, Zero), q_r)>>
        ELSE IF b = "right_shock" THEN
            <<Term(Le(xi, Zero), q_l),
              Term(Lt(Zero, xi) /\ Le(xi, shock_speed), q_star),
              Term(Ge(xi, shock_speed), q_r)>>
        ELSE IF b = "shock_raref" THEN
            <<Term(Le(xi, shock_speed), q_l),
              Term(Lt(shock_speed, xi) /\ Le(xi, Zero), q_star),
              Term(Lt(Zero, xi) /\ Lt(xi, c_r), Fan(xi, v_r)),
              Term(Ge(xi, c_r), q_r)>>
        ELSE IF b = "raref_shock" THEN
            <<Term(Le(xi, c_l), q_l),
              Term(Lt(c_l, xi) /\ Le(xi, Zero), Fan(xi, v_l)),
              Term(Lt(Zero, xi) /\ Le(xi, shock_speed), q_star),
              Term(Lt(shock_speed, xi), q_r)>>
        ELSE IF b = "left_raref" THEN
            <<Term(Le(xi, c_l), q_l),
              Term(Lt(c_l, xi) /\ Le(xi, c_star), Fan(xi, v_l)),
              Term(Lt(c_star, xi) /\ Le(xi, Zero), q_star),
              Term(Le(Zero, xi), q_r)>>
        ELSE IF b = "right_raref" THEN
            <<Term(Le(xi, Zero), q_l),
              Term(Lt(Zero, xi) /\ Le(xi, c_star), q_star),
              Term(Lt(c_star, xi) /\ Le(xi, c_r), Fan(xi, v_r)),
              Term(Le(c_r, xi), q_r)>>
        ELSE IF b = "transonic_left" THEN
            <<Term(Le(xi, c_l), q_l),
              Term(Lt(c_l, xi) /\ Le(xi, c_star), Fan(xi, v_l)),
              Term(Lt(c_star, xi) /\ Le(xi, Zero), q_star),
              Term(Lt(Zero, xi) /\ Le(xi, c_r), Fan(xi, v_r)),
              Term(Lt(c_r, xi), q_r)>>
        ELSE IF b = "transonic_right" THEN
            <<Term(Le(xi, c_l), q_l),
              Term(Lt(c_l, xi) /\ Le(xi, Zero), Fan(xi, v_l)),
              Term(Lt(Zero, xi) /\ Le(xi, c_star), q_star),
              Term(Lt(c_star, xi) /\ Le(xi, c_r), Fan(xi, v_r)),
              Term(Lt(c_r, xi), q_r)>>
        ELSE
            <<Term(Le(xi, c_l), q_l),
              Term(Lt(c_l, xi) /\ Le(xi, c_r), Fan(xi, v_l)),
              Term(Lt(c_r, xi), q_r)>>

\* a boolean times a number, summed over the terms
RECURSIVE SumTerms(_)
SumTerms(ts) ==
    IF ts = <<>> THEN Zero
    ELSE Add(IF Head(ts).ind THEN Head(ts).val ELSE Zero, SumTerms(Tail(ts)))

reval(sol, xi, q_l, q_r, v_l, v_r) ==
    SumTerms(RevalTerms(sol, xi, q_l, q_r, v_l, v_r))

\* how many of the summed indicator products are 1 at xi
Hits(sol, xi, q_l, q_r, v_l, v_r) ==
    LET ts == RevalTerms(sol, xi, q_l, q_r, v_l, v_r)
    IN  Cardinality({i \in DOMAIN ts : ts[i].ind})

-----------------------------------------------------------------------------
(* The state machine: one query, then samples of the evaluator *)

VARIABLES q_l, q_r, v_l, v_r, pc, sol, xi, q, hits

vars == <<q_l, q_r, v_l, v_r, pc, sol, xi, q, hits>>

Densities == {Rat(k, 2 * HalfSteps) : k \in 0..(2 * HalfSteps)}

SpeedLimits == {Rat(v, 1) : v \in 1..MaxV}

\* the wave speeds of a solution: scalars and both ends of the intervals
SpeedPoints(s) ==
    {s.speeds[i].lo : i \in DOMAIN s.speeds} \cup {s.speeds[i].hi : i \in DOMAIN s.speeds}

\* sample points: every wave speed and 0, the midpoint of every two of
\* them, and a point one unit off every one of them
Samples(s) ==
    LET P == SpeedPoints(s) \cup {Zero}
    IN  P \cup {Div(Add(x, y), Two) : x, y \in P}
          \cup {Sub(x, One) : x \in P} \cup {Add(x, One) : x \in P}

\* the concrete scenarios of the specification's section 8
Scenarios ==
    {<<Rat(1, 5), Rat(1, 5), Rat(60, 1), Rat(60, 1)>>,
     <<Rat(4, 5), Rat(4, 5), Rat(60, 1), Rat(40, 1)>>,
     <<Rat(1, 10), Rat(9, 10), Rat(60, 1), Rat(60, 1)>>,
     <<Rat(1, 2), Rat(1, 2), Rat(50, 1), Rat(30, 1)>>}

Inputs == (Densities \X Densities \X SpeedLimits \X SpeedLimits) \cup Scenarios

Init ==
    /\ \E in \in Inputs :
         /\ q_l = in[1]
         /\ q_r = in[2]
         /\ v_l = in[3]
         /\ v_r = in[4]
    /\ pc = "start"
    /\ sol = Unhandled
    /\ xi = Zero
    /\ q = Zero
    /\ hits = 0

Solve ==
    /\ pc = "start"
    /\ sol' = exact_riemann_solution(q_l, q_r, v_l, v_r)
    /\ pc' = IF sol'.branch = "unhandled" THEN "raised" ELSE "solved"
    /\ UNCHANGED <<q_l, q_r, v_l, v_r, xi, q, hits>>

Evaluate ==
    /\ pc \in {"solved", "evaluated"}
    /\ \E x \in Samples(sol) :
         /\ xi' = x
         /\ q' = reval(sol, x, q_l, q_r, v_l, v_r)
         /\ hits' = Hits(sol, x, q_l, q_r, v_l, v_r)
    /\ pc' = "evaluated"
    /\ UNCHANGED <<q_l, q_r, v_l, v_r, sol>>

Next == Solve \/ Evaluate

Spec == Init /\ [][Next]_vars

-----------------------------------------------------------------------------
(* Properties *)

Returned == pc \in {"solved", "evaluated"}

Last(seq) == seq[Len(seq)]

InUnit(x) == Le(Zero, x) /\ Le(x, One)

\* C1: whenever exact_riemann_solution returns, the first state is q_l and
\* the last state is q_r
C1_StatesFromLeftToRight ==
    Returned => /\ Len(sol.states) >= 2
                /\ Eq(sol.states[1], q_l)
                /\ Eq(Last(sol.states), q_r)

C1_Witness ==
    /\ pc = "solved"
    /\ sol.branch = "raref_shock"
    /\ ~Eq(sol.q_star, q_r)
    /\ Eq(Last(sol.states), q_r)

\* the wave pattern of the cases in the numbering of the specification:
\* 1 degenerate, 2 left shock, 3 right shock, 4 left shock + right
\* rarefaction, 5 left rarefaction + right shock, 6 transonic, 7 left
\* rarefaction only, 8 right rarefaction only
CaseHolds(n) ==
    IF n = 1 THEN IsDegenerate(q_l, q_r, v_l, v_r)
    ELSE IF n = 2 THEN IsLeftShock(q_l, q_r, v_l, v_r)
    ELSE IF n = 3 THEN IsRightShock(q_l, q_r, v_l, v_r)
    ELSE IF n = 4 THEN IsShockRaref(q_l, q_r, v_l, v_r)
    ELSE IF n = 5 THEN IsRarefShock(q_l, q_r, v_l, v_r)
    ELSE IF n = 6 THEN IsTransonic(q_l, q_r, v_l, v_r)
    ELSE IF n = 7 THEN IsLeftRaref(q_l, q_r, v_l, v_r)
    ELSE IsRightRaref(q_l, q_r, v_l, v_r)

CasePattern(n) ==
    IF n = 1 THEN <<"contact">>
    ELSE IF n = 2 THEN <<"shock", "contact">>
    ELSE IF n = 3 THEN <<"contact", "shock">>
    ELSE IF n = 4 THEN <<"shock", "contact", "raref">>
    ELSE IF n = 5 THEN <<"raref", "contact", "shock">>
    ELSE IF n = 6 THEN IF Eq(v_l, v_r) THEN <<"raref">>
                       ELSE <<"raref", "contact", "raref">>
    ELSE IF n = 7 THEN <<"raref", "contact">>
    ELSE IF n = 8 THEN <<"contact", "raref">>
    ELSE <<>>

\* the first case of the sequence order whose guard holds, 0 when none does
FirstCase(order) ==
    IF \E i \in DOMAIN order : CaseHolds(order[i])
    THEN order[CHOOSE i \in DOMAIN order :
                 /\ CaseHolds(order[i])
                 /\ \A j \in 1..(i - 1) : ~CaseHolds(order[j])]
    ELSE 0

HasPattern(n) ==
    /\ sol.wave_types = CasePattern(n)
    /\ Len(sol.states) = Len(CasePattern(n)) + 1

\* C2 as stated: the pattern returned is that of the first case, in the
\* order 1, 2, 3, 4, 5, 6 (transonic), 7, 8, whose guard holds
C2_SpecOrder == Returned => HasPattern(FirstCase(<<1, 2, 3, 4, 5, 6, 7, 8>>))

\* C2 amended: the pattern returned is that of the first case whose guard
\* holds in the order 1, 2, 3, 4, 5, 7 (left rarefaction only), 8 (right
\* rarefaction only), 6 (transonic): where the transonic guard and a
\* rarefaction-only guard both hold, the rarefaction-only pattern is returned
C2_SourceOrder ==
    Returned =>
        /\ HasPattern(FirstCase(<<1, 2, 3, 4, 5, 7, 8, 6>>))
        /\ CaseHolds(6) /\ CaseHolds(7) /\ FirstCase(<<1, 2, 3, 4, 5>>) = 0
             => sol.wave_types = <<"raref", "contact">>
        /\ CaseHolds(6) /\ CaseHolds(8) /\ FirstCase(<<1, 2, 3, 4, 5>>) = 0
             => sol.wave_types = <<"contact", "raref">>

C2_Witness ==
    /\ pc = "solved"
    /\ Eq(q_r, Half) /\ Gt(q_l, Half) /\ Lt(v_r, v_l)
    /\ CaseHolds(6) /\ CaseHolds(7)
    /\ FirstCase(<<1, 2, 3, 4, 5>>) = 0
    /\ sol.branch = "left_raref"

Contacts == {i \in DOMAIN sol.wave_types : sol.wave_types[i] = "contact"}

OneContactAtZero ==
    /\ Cardinality(Contacts) = 1
    /\ \A i \in Contacts : /\ i \in DOMAIN sol.speeds
                           /\ sol.speeds[i] = Scalar(Zero)

\* C3 as stated: on every branch wave_types has exactly one contact, and
\* the speed at its index is the scalar 0
C3_OneContact == Returned => OneContactAtZero

\* C3 amended: on every branch but the transonic one with v_l = v_r,
\* wave_types has exactly one contact and the speed at its index is the
\* scalar 0; the transonic branch with v_l = v_r returns the single wave
\* raref with the speed interval (c_l, c_r) and no contact
C3_OneContactUnlessEqualLimits ==
    Returned =>
        IF sol.branch = "transonic_equal"
        THEN /\ Eq(v_l, v_r)
             /\ sol.wave_types = <<"raref">>
             /\ sol.speeds = <<Interval(c(q_l, v_l), c(q_r, v_r))>>
        ELSE OneContactAtZero

C3_Witness ==
    /\ pc = "solved"
    /\ sol.branch = "transonic_equal"
    /\ Contacts = {}
    /\ Gt(q_l, Half) /\ Lt(q_r, Half)

LeftOfAll == \A s \in SpeedPoints(sol) : Lt(xi, s)

RightOfAll == \A s \in SpeedPoints(sol) : Gt(xi, s)

Lows == [i \in DOMAIN sol.speeds |-> sol.speeds[i].lo]

ContactIndex == CHOOSE i \in DOMAIN sol.wave_types : sol.wave_types[i] = "contact"

\* C5: the speeds, taking the lower end of an interval, are non-decreasing
\* from left to right, no interval is reversed, shocks left of the contact
\* have speed <= 0 and shocks right of it have speed >= 0
C5_SpeedsMonotone ==
    Returned =>
        /\ \A i \in 1..(Len(sol.speeds) - 1) : Le(Lows[i], Lows[i + 1])
        /\ \A i \in DOMAIN sol.speeds : Le(sol.speeds[i].lo, sol.speeds[i].hi)
        /\ \A i \in DOMAIN sol.speeds :
             sol.wave_types[i] = "shock" =>
               IF i < ContactIndex THEN Le(sol.speeds[i].lo, Zero)
               ELSE Ge(sol.speeds[i].lo, Zero)
        /\ sol.branch \in {"left_raref", "transonic_left"} =>
             Le(c(q_l, v_l), sol.c_star) /\ Le(sol.c_star, Zero)
        /\ sol.branch \in {"right_raref", "transonic_right"} =>
             Le(Zero, sol.c_star) /\ Le(sol.c_star, c(q_r, v_r))

C5_Witness ==
    /\ pc = "solved"
    /\ sol.branch = "shock_raref"
    /\ Lt(sol.shock_speed, Zero)
    /\ Gt(c(q_r, v_r), Zero)

TakesRoot ==
    sol.branch \in {"left_shock", "right_shock", "shock_raref", "raref_shock",
                    "left_raref", "right_raref", "transonic_left",
                    "transonic_right"}

\* C6: every returned state lies in [0, 1], and on every branch that takes
\* a square root the radicand lies in [0, 1]
C6_StatesInUnitInterval ==
    Returned =>
        /\ \A i \in DOMAIN sol.states : InUnit(sol.states[i])
        /\ TakesRoot => InUnit(sol.radicand) /\ InUnit(sol.q_star)

C6_Witness ==
    /\ pc = "solved"
    /\ sol.branch = "left_shock"
    /\ sol.q_star.b # 0
    /\ Lt(Half, sol.q_star) /\ Lt(sol.q_star, One)

ContactOnly ==
    /\ sol.states = <<q_l, q_r>>
    /\ sol.wave_types = <<"contact">>
    /\ sol.speeds = <<Scalar(Zero)>>

\* C7 as stated: with q_l = q_r and v_l # v_r the result is the states
\* [q_l, q_r] with a single contact at speed 0
C7_EqualDensityContactOnly ==
    (Returned /\ Eq(q_l, q_r) /\ ~Eq(v_l, v_r)) => ContactOnly

\* C7 amended: with q_l = q_r and v_l # v_r the contact-only result is
\* returned exactly when the density is 0 or 1 (both fluxes vanish); with
\* 1/2 < q_l = q_r < 1 and v_r < v_l, as for q_l = q_r = 0.8, v_l = 60,
\* v_r = 40, the left shock branch is taken: states [q_l, q_star, q_r] with
\* q_star > q_l, wave_types [shock, contact], speeds [shock_speed, 0] with
\* shock_speed < 0
C7_EqualDensityNeedsEqualFlux ==
    (Returned /\ Eq(q_l, q_r) /\ ~Eq(v_l, v_r)) =>
        /\ ContactOnly <=> (Eq(q_l, Zero) \/ Eq(q_l, One))
        /\ (Gt(q_l, Half) /\ Lt(q_l, One) /\ Lt(v_r, v_l)) =>
             /\ sol.states = <<q_l, sol.q_star, q_r>>
             /\ Gt(sol.q_star, q_l)
             /\ sol.wave_types = <<"shock", "contact">>
             /\ sol.speeds = <<Scalar(sol.shock_speed), Scalar(Zero)>>
             /\ Lt(sol.shock_speed, Zero)

C7_Witness ==
    /\ pc = "solved"
    /\ q_l = Rat(4, 5) /\ q_r = Rat(4, 5)
    /\ v_l = Rat(60, 1) /\ v_r = Rat(40, 1)
    /\ sol.branch = "left_shock"

\* C8 as stated: q_l = q_r = 1/2 with v_r < v_l gives the transonic
\* pattern [raref, contact, raref] with states [q_l, q_star, 1/2, q_r]
C8_HalfHalfTransonic ==
    (Returned /\ Eq(q_l, Half) /\ Eq(q_r, Half) /\ Lt(v_r, v_l)) =>
        /\ sol.wave_types = <<"raref", "contact", "raref">>
        /\ sol.states = <<q_l, sol.q_star, Half, q_r>>
        /\ sol.speeds = <<Interval(c(q_l, v_l), sol.c_star), Scalar(Zero),
                          Interval(Zero, c(q_r, v_r))>>

\* C8 amended: q_l = q_r = 1/2 with v_r < v_l takes the left shock + right
\* rarefaction branch: wave_types [shock, contact, raref], states
\* [q_l, q_star, 1/2, q_r] with q_star = (1 + sqrt(1 - v_r/v_l))/2, speeds
\* [shock_speed, 0, (0, c_r)] with shock_speed =
\* -(f_l - v_r/4)/(q_star - q_l) < 0 and c_r = 0
C8_HalfHalfShockRaref ==
    (pc # "start" /\ Eq(q_l, Half) /\ Eq(q_r, Half) /\ Lt(v_r, v_l)) =>
        /\ sol.wave_types = <<"shock", "contact", "raref">>
        /\ sol.states = <<q_l, sol.q_star, Half, q_r>>
        /\ sol.speeds = <<Scalar(sol.shock_speed), Scalar(Zero),
                          Interval(Zero, c(q_r, v_r))>>
        /\ Gt(sol.q_star, Half)
        /\ LET w == Sub(Mul(Two, sol.q_star), One)
           IN  Eq(Mul(w, w), Sub(One, Div(v_r, v_l)))
        /\ Eq(Mul(sol.shock_speed, Sub(sol.q_star, q_l)),
              Neg(Sub(f(q_l, v_l), Div(v_r, Four))))
        /\ Lt(sol.shock_speed, Zero)
        /\ Eq(c(q_r, v_r), Zero)

C8_Witness ==
    /\ pc = "solved"
    /\ q_l = Half /\ q_r = Half
    /\ v_l = Rat(50, 1) /\ v_r = Rat(30, 1)
    /\ sol.branch = "shock_raref"

\* C9: at every xi exactly one of the indicator products summed by reval
\* is 1
C9_OneSegment == pc = "evaluated" => hits = 1

\* C10: on the valid domain some guard of the if/elif chain holds, the
\* else branch that raises is never taken
C10_NeverUnhandled ==
    /\ pc # "raised"
    /\ pc # "start" => sol.branch # "unhandled"

C10_Witness ==
    /\ pc = "solved"
    /\ Eq(q_l, Half) /\ Eq(q_r, Half) /\ Lt(v_l, v_r)
    /\ sol.branch = "raref_shock"

=============================================================================
